---- MODULE Spec2Model ----
(***************************************************************************)
(* A model of the TCP request/response server of src/src/server.rs: the    *)
(* accept loop (Server::run), the shutdown request (Server::stop), the     *)
(* worker pool (ThreadPool, Worker), the per-connection session            *)
(* (Client::handle and the task closure of Server::run) and the framing    *)
(* codec (Client::read_message, Client::write_message).                    *)
(***************************************************************************)
EXTENDS Integers, Sequences, FiniteSets, TLC

(***************************************************************************)
(* Program constants.                                                      *)
(***************************************************************************)
MAX_MESSAGE_SIZE == 1024 * 1024
THREAD_POOL_SIZE == 4

(***************************************************************************)
(* Bounds of the model.                                                    *)
(***************************************************************************)
\* client connections the environment may open (each may reconnect)
MaxClients == 2
\* threads that may call stop()
NumStoppers == 2
\* frames in one client's script
MaxFrames == 2
\* the ghost counters of poll cycles stop counting here
MaxCount == 3

Workers == 1..THREAD_POOL_SIZE
Clients == 1..MaxClients
Stoppers == 1..NumStoppers
\* the connection stop() number s opens to the server's own listener
SelfConn(s) == MaxClients + s
\* the connection that keeps worker w busy when a server is looked at with
\* its pool full
Filler(w) == MaxClients + NumStoppers + w
Conns == 1..(MaxClients + NumStoppers + THREAD_POOL_SIZE)

Min(a, b) == IF a < b THEN a ELSE b
\* the sequence s without its first c
RemoveFirst(s, c) ==
    IF \E i \in 1..Len(s) : s[i] = c
    THEN LET i == CHOOSE k \in 1..Len(s) : s[k] = c /\ \A j \in 1..(k - 1) : s[j] # c
         IN  SubSeq(s, 1, i - 1) \o SubSeq(s, i + 1, Len(s))
    ELSE s

(***************************************************************************)
(* 32-bit two's-complement integers (i32).  Values are kept as integers in *)
(* INT32_MIN..INT32_MAX; sums are computed on 16-bit halves so that the    *)
(* mathematical sum is never formed at a width that cannot hold it.        *)
(***************************************************************************)
Half == 256 * 256
INT32_MAX == (32767 * Half) + 65535
INT32_MIN == (-32768) * Half

Hi(x) == x \div Half
Lo(x) == x % Half
\* the high half of the exact sum a + b: outside -32768..32767 on overflow
SumHi(a, b) == Hi(a) + Hi(b) + ((Lo(a) + Lo(b)) \div Half)
SumLo(a, b) == (Lo(a) + Lo(b)) % Half
AddOverflows(a, b) == SumHi(a, b) < -32768 \/ SumHi(a, b) > 32767
\* a + b reduced modulo 2^32 into the i32 range
WrappingAdd(a, b) ==
    ((((SumHi(a, b) + 32768) % Half) - 32768) * Half) + SumLo(a, b)

(***************************************************************************)
(* The 4-byte big-endian length prefix.  Lengths of the model stay below   *)
(* 2^31.                                                                   *)
(***************************************************************************)
ToBeBytes(n) ==
    << n \div 16777216, (n \div 65536) % 256, (n \div 256) % 256, n % 256 >>
FromBeBytes(b) == (((((b[1] * 256) + b[2]) * 256) + b[3]) * 256) + b[4]

(***************************************************************************)
(* Messages.  A payload is kept by what it decodes to: an Echo request, an *)
(* Add request, a message with no variant set (the empty payload decodes   *)
(* to it), or bytes that do not decode.                                    *)
(***************************************************************************)
Msg(tag, content, a, b) == [tag |-> tag, content |-> content, a |-> a, b |-> b]
EchoMessage(content) == Msg("Echo", content, 0, 0)
AddRequest(a, b) == Msg("Add", "", a, b)
NoVariant == Msg("None", "", 0, 0)
Garbage == Msg("Garbage", "", 0, 0)
AddResponse(result) == Msg("AddResult", "", result, 0)

\* a frame as the client's side puts it on the wire: the prefix bytes that
\* arrive (fewer than 4 when the stream ends inside the prefix), the number
\* of body bytes that arrive, and what the declared body decodes to
Frame(prefix, avail, payload) ==
    [prefix |-> prefix, avail |-> avail, payload |-> payload]
\* a frame as src/src/client.rs writes it: len.to_be_bytes(), then the payload
WholeFrame(len, payload) == Frame(ToBeBytes(len), len, payload)

(***************************************************************************)
(* The framing codec and the request handlers, as functions of what the    *)
(* peer's side of the stream holds: the frames not yet read (rest) and how *)
(* the stream ends after them (ending): "eof" the peer closes, "timeout"   *)
(* the peer stays silent past READ_TIMEOUT, "reset" the transport fails.   *)
(***************************************************************************)
Endings == {"eof", "timeout", "reset"}

\* the io::ErrorKind read_exact fails with when the stream gives no more bytes
EndErrorKind(ending) ==
    CASE ending = "eof" -> "UnexpectedEof"
      [] ending = "timeout" -> "WouldBlock"
      [] OTHER -> "ConnectionReset"

ReadOk(payload, n) ==
    [ok |-> TRUE, kind |-> "", buffer |-> payload, bodyRead |-> n]
ReadErr(kind, n) ==
    [ok |-> FALSE, kind |-> kind, buffer |-> Garbage, bodyRead |-> n]

\* a size check that also rejects a length equal to the maximum
read_messageRejectsMax(rest, ending) ==
    IF rest = << >> \/ Len(Head(rest).prefix) < 4
    THEN ReadErr(EndErrorKind(ending), 0)
    ELSE LET f == Head(rest)
             message_len == FromBeBytes(f.prefix)
         IN  IF message_len >= MAX_MESSAGE_SIZE
             THEN ReadErr("InvalidData", 0)
             ELSE IF f.avail < message_len
                  THEN ReadErr(EndErrorKind(ending), f.avail)
                  ELSE ReadOk(f.payload, message_len)

\* Client::read_message: the prefix, the size check, then the body
read_message(rest, ending) ==
    IF rest = << >> \/ Len(Head(rest).prefix) < 4
    THEN ReadErr(EndErrorKind(ending), 0)
    ELSE LET f == Head(rest)
             message_len == FromBeBytes(f.prefix)
         IN  IF message_len > MAX_MESSAGE_SIZE
             THEN ReadErr("InvalidData", 0)
             ELSE IF f.avail < message_len
                  THEN ReadErr(EndErrorKind(ending), f.avail)
                  ELSE ReadOk(f.payload, message_len)

\* a decoder that fails on a message with no variant set
DecodeOkNeedsVariant(buffer) == buffer.tag \notin {"Garbage", "None"}

\* ClientMessage::decode: fails on bytes that are no ClientMessage
DecodeOk(buffer) == buffer.tag # "Garbage"

\* an echo handler that answers with empty content
handle_echoEmpty(msg) == [panic |-> FALSE, response |-> EchoMessage("")]

\* Client::handle_echo
handle_echo(msg) == [panic |-> FALSE, response |-> msg]

\* Client::handle_add: `req.a + req.b` on i32.  With overflow checks (the
\* debug and test profiles) an overflowing sum panics; without them (the
\* release profile) it wraps.
handle_add(req, checks) ==
    IF checks /\ AddOverflows(req.a, req.b)
    THEN [panic |-> TRUE, response |-> Garbage]
    ELSE [panic |-> FALSE, response |-> AddResponse(WrappingAdd(req.a, req.b))]

HandleResult(ret, kind, written, n) ==
    [ret |-> ret, kind |-> kind, written |-> written, bodyRead |-> n]

\* Client::handle: one request/response exchange.  ret is the value handed
\* to the task closure: Ok(true), Ok(false), Err(kind), or a panic;
\* written is what write_message has put on the stream (writeOk: the
\* transport takes the response).
handle(rest, ending, checks, writeOk) ==
    LET r == read_message(rest, ending)
    IN  IF ~r.ok
        THEN IF r.kind = "UnexpectedEof"
             THEN HandleResult("OkFalse", r.kind, << >>, r.bodyRead)
             ELSE HandleResult("Err", r.kind, << >>, r.bodyRead)
        ELSE IF ~DecodeOk(r.buffer)
        THEN HandleResult("OkFalse", "DecodeError", << >>, r.bodyRead)
        ELSE IF r.buffer.tag = "None"
        THEN HandleResult("OkTrue", "NoVariant", << >>, r.bodyRead)
        ELSE LET d == IF r.buffer.tag = "Echo"
                      THEN handle_echo(r.buffer)
                      ELSE handle_add(r.buffer, checks)
             IN  IF d.panic
                 THEN HandleResult("Panic", "Overflow", << >>, r.bodyRead)
                 ELSE IF writeOk
                 THEN HandleResult("OkTrue", "", << d.response >>, r.bodyRead)
                 ELSE HandleResult("Err", "BrokenPipe", << >>, r.bodyRead)

(***************************************************************************)
(* What clients send.                                                      *)
(***************************************************************************)
Script(frames, ending) == [frames |-> frames, ending |-> ending]
NoScript == Script(<< >>, "eof")

\* the frames a session is tried on: requests of both kinds, sums at the
\* edges of i32, a message with no variant, undecodable bytes, bodies at and
\* over the size limit, and frames cut short inside the prefix and the body
Frames ==
    { WholeFrame(2, EchoMessage("")),
      WholeFrame(3, EchoMessage("a")),
      WholeFrame(10006, EchoMessage("x repeated 10000 times")),
      WholeFrame(4, AddRequest(10, 20)),
      WholeFrame(4, AddRequest(INT32_MAX, 1)),
      WholeFrame(4, AddRequest(INT32_MIN, -1)),
      WholeFrame(4, AddRequest(-1, 1)),
      WholeFrame(0, NoVariant),
      WholeFrame(3, Garbage),
      WholeFrame(MAX_MESSAGE_SIZE, EchoMessage("max")),
      WholeFrame(MAX_MESSAGE_SIZE + 1, EchoMessage("over")),
      Frame(<< 0, 0 >>, 0, Garbage),
      Frame(ToBeBytes(3), 1, EchoMessage("a")) }

SeqsUpTo(S, n) == UNION { [1..k -> S] : k \in 0..n }
AllScripts == { Script(fs, e) : fs \in SeqsUpTo(Frames, MaxFrames), e \in Endings }

\* the scripts of the clients of a serving server: a well-behaved client,
\* one that sends undecodable bytes, one that goes silent, one whose
\* transport fails
ServerScripts ==
    { Script(<< WholeFrame(4, AddRequest(10, 20)) >>, "eof"),
      Script(<< WholeFrame(3, Garbage) >>, "eof"),
      Script(<< >>, "timeout"),
      Script(<< WholeFrame(2, EchoMessage("")) >>, "reset") }

\* the scripts of the clients of a server followed to its end: a client
\* served well and one whose sum overflows
LifeScripts ==
    { Script(<< WholeFrame(3, EchoMessage("a")) >>, "eof"),
      Script(<< WholeFrame(4, AddRequest(INT32_MAX, 1)) >>, "eof") }

\* whether the transport may refuse a response: only a failing transport does
WriteOutcomes(ending) == IF ending = "reset" THEN {TRUE, FALSE} ELSE {TRUE}

(***************************************************************************)
(* State.                                                                  *)
(***************************************************************************)
VARIABLES
    overflowChecks,  \* the build: TRUE with integer overflow checks (debug, test)
    is_running,      \* Server.is_running, the AtomicBool
    runPc,           \* where the thread in Server::run is
    stopPc,          \* where each thread in Server::stop is
    backlog,         \* connections the listener holds, not yet accepted
    queue,           \* the pool's channel of ThreadPoolMessage
    workerState,     \* each worker thread: "recv", "job", "exited", "dead"
    workerConn,      \* the connection of the job a worker runs (0: none)
    sessPc,          \* where a worker's session closure is: "check", "handle"
    dropPc,          \* where ThreadPool::drop is
    dropSent,        \* Terminate messages drop has sent
    joinIdx,         \* the worker drop joins next
    connStatus,      \* each connection, as the server holds it
    script,          \* what the peer of each connection sends
    menu,            \* the scripts clients choose from
    connectsLeft,    \* how many more times each client will connect
    rpos,            \* frames of the script the session has taken
    out,             \* response messages written to each connection
    lastKind,        \* how the last handle() of each connection ended
    bodyRead,        \* body bytes the last read_message of each connection took
    acceptsSinceStop, \* accept attempts made with the flag false
    sleepsSinceStop,  \* sleeps ended with the flag false
    outstanding,     \* the connections of the jobs sent and not yet received, oldest first
    sent,            \* how many jobs execute() has sent for each connection
    received,        \* how many jobs of each connection workers have received
    helperStream,    \* the client helper's stream: "None" or "Some"
    helperSent,      \* frames the helper has written to its stream since connect()
    helperOp         \* the helper's last call: its name, the stream before it, its result

vars == << overflowChecks, is_running, runPc, stopPc, backlog, queue,
           workerState, workerConn, sessPc, dropPc, dropSent, joinIdx,
           connStatus, script, menu, connectsLeft, rpos, out,
           lastKind, bodyRead, acceptsSinceStop, sleepsSinceStop,
           outstanding, sent, received, helperStream, helperSent, helperOp >>

helperVars == << helperStream, helperSent, helperOp >>
serverVars == << is_running, runPc, stopPc, backlog, acceptsSinceStop, sleepsSinceStop >>
orderVars == << outstanding, sent, received >>
poolVars == << queue, workerState, workerConn, sessPc, orderVars >>
dropVars == << dropPc, dropSent, joinIdx >>
connVars == << connStatus, script, menu, connectsLeft, rpos, out,
              lastKind, bodyRead >>
envVars == << menu, connectsLeft >>

NewJob(c) == [type |-> "NewJob", conn |-> c]
Terminate == [type |-> "Terminate", conn |-> 0]

(***************************************************************************)
(* The client helper of src/src/client.rs: a Client holds an               *)
(* Option<TcpStream>.                                                      *)
(***************************************************************************)
HelperCall(op, pre, kind, got) == [op |-> op, pre |-> pre, kind |-> kind, got |-> got]

\* Client::new: stream: None
HelperNew ==
    /\ helperStream = "None"
    /\ helperSent = << >>
    /\ helperOp = HelperCall("new", "None", "Ok", Garbage)

\* a helper that reports a missing connection as a broken pipe
NoConnectionKindOther == "BrokenPipe"
\* io::ErrorKind::NotConnected, "No active connection"
NoConnectionKind == "NotConnected"

\* how Client::connect may end: Ok, or the error of to_socket_addrs, of an
\* empty address list, or of TcpStream::connect_timeout
ConnectOutcomes == {"Ok", "InvalidInput", "TimedOut", "ConnectionRefused"}

\* Client::connect: the stream is set only after connect_timeout succeeds
HelperConnect ==
    /\ \E outcome \in ConnectOutcomes :
          /\ helperStream' = IF outcome = "Ok" THEN "Some" ELSE helperStream
          /\ helperSent' = IF outcome = "Ok" THEN << >> ELSE helperSent
          /\ helperOp' = HelperCall("connect", helperStream, outcome, Garbage)
    /\ UNCHANGED << overflowChecks, serverVars, poolVars, dropVars, connVars >>

\* Client::disconnect: self.stream.take(), then shutdown(Both)? of what was
\* taken; shutdown fails with NotConnected on a connection the peer has reset
HelperDisconnect ==
    /\ \E shutdownOk \in BOOLEAN :
          helperOp' = HelperCall("disconnect", helperStream,
                                 IF helperStream = "None" \/ shutdownOk
                                 THEN "Ok" ELSE "NotConnected",
                                 Garbage)
    /\ helperStream' = "None"
    /\ UNCHANGED << overflowChecks, helperSent, serverVars, poolVars, dropVars, connVars >>

\* the requests the helper is given to send, as the frames send() writes
HelperFrames ==
    { WholeFrame(3, EchoMessage("a")), WholeFrame(4, AddRequest(10, 20)) }

\* Client::send: the prefix, the payload, flush; a write may fail before the
\* prefix or between the prefix and the payload
HelperSend ==
    /\ IF helperStream = "Some"
       THEN /\ Len(helperSent) < MaxFrames
            /\ \E f \in HelperFrames, wrote \in {"all", "prefix", "nothing"} :
                  /\ helperSent' =
                        CASE wrote = "all" -> Append(helperSent, f)
                          [] wrote = "prefix" -> Append(helperSent, Frame(f.prefix, 0, f.payload))
                          [] OTHER -> helperSent
                  /\ helperOp' = HelperCall("send", helperStream,
                                            IF wrote = "all" THEN "Ok" ELSE "BrokenPipe",
                                            Garbage)
       ELSE /\ helperSent' = helperSent
            /\ helperOp' = HelperCall("send", helperStream, NoConnectionKind, Garbage)
    /\ UNCHANGED << overflowChecks, helperStream, serverVars, poolVars, dropVars, connVars >>

\* what the server's side may have put on the helper's stream when
\* receive() reads: nothing, a whole response, bytes that are no
\* ServerMessage, a frame cut short
HelperInbound ==
    { << >>,
      << WholeFrame(3, EchoMessage("a")) >>,
      << WholeFrame(2, AddResponse(30)) >>,
      << WholeFrame(3, Garbage) >>,
      << Frame(ToBeBytes(3), 1, EchoMessage("a")) >> }

\* Client::receive on a stream: the prefix, the body (no size limit), then
\* ServerMessage::decode, whose error becomes InvalidData
helper_receive(inbound, ending) ==
    IF inbound = << >> \/ Len(Head(inbound).prefix) < 4
    THEN [kind |-> EndErrorKind(ending), got |-> Garbage]
    ELSE LET f == Head(inbound)
         IN  IF f.avail < FromBeBytes(f.prefix)
             THEN [kind |-> EndErrorKind(ending), got |-> Garbage]
             ELSE IF ~DecodeOk(f.payload)
             THEN [kind |-> "InvalidData", got |-> Garbage]
             ELSE [kind |-> "Ok", got |-> f.payload]

\* Client::receive; the stream has no read timeout, so a silent peer gives
\* no result at all
HelperReceive ==
    /\ IF helperStream = "Some"
       THEN \E inbound \in HelperInbound, ending \in {"eof", "reset"} :
               LET r == helper_receive(inbound, ending)
               IN  helperOp' = HelperCall("receive", helperStream, r.kind, r.got)
       ELSE helperOp' = HelperCall("receive", helperStream, NoConnectionKind, Garbage)
    /\ UNCHANGED << overflowChecks, helperStream, helperSent,
                    serverVars, poolVars, dropVars, connVars >>

\* Server::new: the listener bound, the flag false, the pool's workers started
ServerNew ==
    /\ is_running = FALSE
    /\ runPc = "start"
    /\ backlog = << >>
    /\ queue = << >>
    /\ workerState = [w \in Workers |-> "recv"]
    /\ workerConn = [w \in Workers |-> 0]
    /\ sessPc = [w \in Workers |-> "none"]
    /\ dropPc = "idle"
    /\ dropSent = 0
    /\ joinIdx = 1
    /\ connStatus = [c \in Conns |-> "none"]
    /\ script = [c \in Conns |-> NoScript]
    /\ rpos = [c \in Conns |-> 0]
    /\ out = [c \in Conns |-> << >>]
    /\ lastKind = [c \in Conns |-> "none"]
    /\ bodyRead = [c \in Conns |-> 0]
    /\ acceptsSinceStop = 0
    /\ sleepsSinceStop = 0
    /\ outstanding = << >>
    /\ sent = [c \in Conns |-> 0]
    /\ received = [c \in Conns |-> 0]

\* the whole life of a server, up to the drop of its pool: one client
\* connects once, one thread calls stop()
Init ==
    /\ ServerNew
    /\ overflowChecks \in BOOLEAN
    /\ HelperNew
    /\ menu = LifeScripts
    /\ stopPc = [s \in Stoppers |-> IF s = 1 THEN "idle" ELSE "off"]
    /\ connectsLeft = [c \in Conns |-> IF c = 1 THEN 1 ELSE 0]

(***************************************************************************)
(* The environment: a client connects to the listener.                     *)
(***************************************************************************)
Connect(c) ==
    /\ dropPc = "idle"
    /\ connStatus[c] \in {"none", "closed"}
    /\ connectsLeft[c] > 0
    /\ connectsLeft' = [connectsLeft EXCEPT ![c] = @ - 1]
    /\ \E sc \in menu :
          script' = [script EXCEPT ![c] = sc]
    /\ connStatus' = [connStatus EXCEPT ![c] = "pending"]
    /\ rpos' = [rpos EXCEPT ![c] = 0]
    /\ out' = [out EXCEPT ![c] = << >>]
    /\ lastKind' = [lastKind EXCEPT ![c] = "none"]
    /\ bodyRead' = [bodyRead EXCEPT ![c] = 0]
    /\ backlog' = Append(backlog, c)
    /\ UNCHANGED << overflowChecks, helperVars, is_running, runPc, stopPc, acceptsSinceStop,
                    sleepsSinceStop, poolVars, dropVars, menu >>

(***************************************************************************)
(* Server::run.                                                            *)
(***************************************************************************)
InLoop == runPc \in {"check", "accept", "sleep"}

\* is_running.store(true)
RunStart ==
    /\ runPc = "start"
    /\ is_running' = TRUE
    /\ runPc' = "check"
    /\ UNCHANGED << overflowChecks, helperVars, stopPc, backlog, acceptsSinceStop,
                    sleepsSinceStop, poolVars, dropVars, connVars >>

\* while self.is_running.load(): leave the loop and return Ok(()) on false
RunCheck ==
    /\ runPc = "check"
    /\ runPc' = IF is_running THEN "accept" ELSE "returned"
    /\ UNCHANGED << overflowChecks, helperVars, is_running, stopPc, backlog, acceptsSinceStop,
                    sleepsSinceStop, poolVars, dropVars, connVars >>

\* the receiving side of the channel lives as long as one worker thread does
ReceiverAlive == \E w \in Workers : workerState[w] \in {"recv", "job"}

\* ThreadPool::execute: sender.send(NewJob(job)).unwrap()
ExecuteOk == ReceiverAlive
\* an execute() that sends its job twice
executeTwice(c) == Append(Append(queue, NewJob(c)), NewJob(c))
\* an execute() that puts its job ahead of the jobs already sent
executeFront(c) == << NewJob(c) >> \o queue
execute(c) == Append(queue, NewJob(c))

CountUp(n) == IF is_running THEN n ELSE Min(n + 1, MaxCount)

\* listener.accept() returns a connection: hand it to the pool
RunAcceptConn ==
    /\ runPc = "accept"
    /\ backlog # << >>
    /\ backlog' = Tail(backlog)
    /\ acceptsSinceStop' = CountUp(acceptsSinceStop)
    /\ IF ExecuteOk
       THEN /\ queue' = execute(Head(backlog))
            /\ outstanding' = Append(outstanding, Head(backlog))
            /\ sent' = [sent EXCEPT ![Head(backlog)] = @ + 1]
            /\ connStatus' = [connStatus EXCEPT ![Head(backlog)] = "queued"]
            /\ runPc' = "check"
       ELSE /\ queue' = queue
            /\ UNCHANGED << outstanding, sent >>
            /\ connStatus' = [connStatus EXCEPT ![Head(backlog)] = "closed"]
            /\ runPc' = "panicked"
    /\ UNCHANGED << overflowChecks, helperVars, is_running, stopPc, sleepsSinceStop,
                    workerState, workerConn, sessPc, received, dropVars,
                    script, envVars, rpos, out, lastKind, bodyRead >>

\* listener.accept() fails with WouldBlock: no connection is pending
RunAcceptWouldBlock ==
    /\ runPc = "accept"
    /\ backlog = << >>
    /\ acceptsSinceStop' = CountUp(acceptsSinceStop)
    /\ runPc' = "sleep"
    /\ UNCHANGED << overflowChecks, helperVars, is_running, stopPc, backlog, sleepsSinceStop,
                    poolVars, dropVars, connVars >>

\* an accept error that also clears the flag
RunAcceptErrorClearsFlag ==
    /\ runPc = "accept"
    /\ acceptsSinceStop' = CountUp(acceptsSinceStop)
    /\ runPc' = "returned"
    /\ is_running' = FALSE
    /\ UNCHANGED << overflowChecks, helperVars, stopPc, backlog, sleepsSinceStop,
                    poolVars, dropVars, connVars >>

\* listener.accept() fails otherwise: break, and return Ok(())
RunAcceptError ==
    /\ runPc = "accept"
    /\ acceptsSinceStop' = CountUp(acceptsSinceStop)
    /\ runPc' = "returned"
    /\ UNCHANGED << overflowChecks, helperVars, is_running, stopPc, backlog, sleepsSinceStop,
                    poolVars, dropVars, connVars >>

\* a loop that polls again after the sleep without reading the flag
AfterSleepNoCheck == "accept"

\* thread::sleep(100 ms) ends: back to the loop condition
AfterSleep == "check"
RunSleep ==
    /\ runPc = "sleep"
    /\ sleepsSinceStop' = CountUp(sleepsSinceStop)
    /\ runPc' = AfterSleep
    /\ UNCHANGED << overflowChecks, helperVars, is_running, stopPc, backlog, acceptsSinceStop,
                    poolVars, dropVars, connVars >>

(***************************************************************************)
(* Server::stop, called by thread s.                                       *)
(***************************************************************************)
\* a stop() that does not look at the flag it has loaded
StopBranchAlways(loaded) == "store"

\* what stop() does after is_running.load() has returned `loaded`
StopBranch(loaded) == IF loaded THEN "store" ELSE "warned"

\* if self.is_running.load()
StopLoad(s) ==
    /\ stopPc[s] = "idle"
    /\ dropPc = "idle"
    /\ stopPc' = [stopPc EXCEPT ![s] = StopBranch(is_running)]
    /\ UNCHANGED << overflowChecks, helperVars, is_running, runPc, backlog, acceptsSinceStop,
                    sleepsSinceStop, poolVars, dropVars, connVars >>

\* is_running.store(false)
StopStore(s) ==
    /\ stopPc[s] = "store"
    /\ is_running' = FALSE
    /\ stopPc' = [stopPc EXCEPT ![s] = "connect"]
    /\ UNCHANGED << overflowChecks, helperVars, runPc, backlog, acceptsSinceStop,
                    sleepsSinceStop, poolVars, dropVars, connVars >>

\* let _ = TcpStream::connect(addr): the connection to the own listener is
\* made and dropped at once, so its peer side is closed with nothing sent
StopConnect(s) ==
    /\ stopPc[s] = "connect"
    /\ backlog' = Append(backlog, SelfConn(s))
    /\ connStatus' = [connStatus EXCEPT ![SelfConn(s)] = "pending"]
    /\ stopPc' = [stopPc EXCEPT ![s] = "flipped"]
    /\ UNCHANGED << overflowChecks, helperVars, is_running, runPc, acceptsSinceStop,
                    sleepsSinceStop, poolVars, dropVars,
                    script, envVars, rpos, out, lastKind, bodyRead >>

(***************************************************************************)
(* Worker::new: the loop of worker thread w.                               *)
(***************************************************************************)
\* a worker thread that ends after its first job
AfterJobExits == "exited"
\* the closure of a job has returned: the stream is dropped, the worker
\* goes back to receiver.lock().unwrap().recv()
AfterJob == "recv"
\* the closure of a job has panicked: nothing catches it, the thread unwinds
AfterPanic == "dead"

TaskEnds(w, state) ==
    /\ workerState' = [workerState EXCEPT ![w] = state]
    /\ workerConn' = [workerConn EXCEPT ![w] = 0]
    /\ sessPc' = [sessPc EXCEPT ![w] = "none"]
    /\ connStatus' = [connStatus EXCEPT ![workerConn[w]] = "closed"]

\* let message = receiver.lock().unwrap().recv().unwrap(), NewJob: the job
\* starts with Client::new(stream)
WorkerRecvJob(w) ==
    /\ workerState[w] = "recv"
    /\ queue # << >>
    /\ Head(queue).type = "NewJob"
    /\ queue' = Tail(queue)
    /\ workerState' = [workerState EXCEPT ![w] = "job"]
    /\ workerConn' = [workerConn EXCEPT ![w] = Head(queue).conn]
    /\ sessPc' = [sessPc EXCEPT ![w] = "check"]
    /\ connStatus' = [connStatus EXCEPT ![Head(queue).conn] = "active"]
    /\ received' = [received EXCEPT ![Head(queue).conn] = @ + 1]
    /\ outstanding' = RemoveFirst(outstanding, Head(queue).conn)
    /\ UNCHANGED << overflowChecks, helperVars, serverVars, dropVars, sent,
                    script, envVars, rpos, out, lastKind, bodyRead >>

\* the same, Terminate: break
WorkerRecvTerminate(w) ==
    /\ workerState[w] = "recv"
    /\ queue # << >>
    /\ Head(queue).type = "Terminate"
    /\ queue' = Tail(queue)
    /\ workerState' = [workerState EXCEPT ![w] = "exited"]
    /\ UNCHANGED << overflowChecks, helperVars, serverVars, dropVars, connVars,
                    workerConn, sessPc, orderVars >>

(***************************************************************************)
(* The task closure of Server::run, run by worker w.                       *)
(***************************************************************************)
\* a closure that serves whatever the flag says
SessionBranchAlways(loaded) == "handle"

\* what the closure does after is_running.load() has returned `loaded`
SessionBranch(loaded) == IF loaded THEN "handle" ELSE "return"

\* while is_running.load()
SessionCheck(w) ==
    /\ workerState[w] = "job"
    /\ sessPc[w] = "check"
    /\ IF SessionBranch(is_running) = "handle"
       THEN /\ sessPc' = [sessPc EXCEPT ![w] = "handle"]
            /\ UNCHANGED << workerState, workerConn, connStatus >>
       ELSE TaskEnds(w, AfterJob)
    /\ UNCHANGED << overflowChecks, helperVars, serverVars, dropVars, queue, orderVars,
                    script, envVars, rpos, out, lastKind, bodyRead >>

Rest(c) == SubSeq(script[c].frames, rpos[c] + 1, Len(script[c].frames))

\* a closure that lets an Err of client.handle() escape as a panic
AfterHandleErrPanics(ret) ==
    CASE ret = "OkTrue" -> "continue"
      [] ret \in {"Panic", "Err"} -> "panic"
      [] OTHER -> "break"

\* what the closure does with the value of client.handle()
AfterHandle(ret) ==
    CASE ret = "OkTrue" -> "continue"
      [] ret = "Panic" -> "panic"
      [] OTHER -> "break"

\* match client.handle()
SessionHandle(w) ==
    /\ workerState[w] = "job"
    /\ sessPc[w] = "handle"
    /\ LET c == workerConn[w] IN
       \E writeOk \in WriteOutcomes(script[c].ending) :
          LET r == handle(Rest(c), script[c].ending, overflowChecks, writeOk) IN
          /\ rpos' = [rpos EXCEPT ![c] = IF Rest(c) = << >> THEN @ ELSE @ + 1]
          /\ out' = [out EXCEPT ![c] = @ \o r.written]
          /\ lastKind' = [lastKind EXCEPT ![c] = IF r.written # << >> THEN "Responded" ELSE r.kind]
          /\ bodyRead' = [bodyRead EXCEPT ![c] = r.bodyRead]
          /\ CASE AfterHandle(r.ret) = "continue" ->
                    /\ sessPc' = [sessPc EXCEPT ![w] = "check"]
                    /\ UNCHANGED << workerState, workerConn, connStatus >>
               [] AfterHandle(r.ret) = "panic" -> TaskEnds(w, AfterPanic)
               [] OTHER -> TaskEnds(w, AfterJob)
    /\ UNCHANGED << overflowChecks, helperVars, serverVars, dropVars, queue, orderVars,
                    script, envVars >>

(***************************************************************************)
(* impl Drop for ThreadPool, run when the last owner lets go of the Server *)
(* (run() is over and no stop() is under way); the listener goes first.    *)
(***************************************************************************)
DropStart ==
    /\ dropPc = "idle"
    /\ runPc \in {"returned", "panicked"}
    /\ \A s \in Stoppers : stopPc[s] \notin {"store", "connect"}
    /\ dropPc' = "send"
    /\ backlog' = << >>
    /\ connStatus' = [c \in Conns |->
                        IF connStatus[c] = "pending" THEN "closed" ELSE connStatus[c]]
    /\ UNCHANGED << overflowChecks, helperVars, is_running, runPc, stopPc, acceptsSinceStop,
                    sleepsSinceStop, poolVars, dropSent, joinIdx,
                    script, envVars, rpos, out, lastKind, bodyRead >>

\* a drop that sends one Terminate too few
TerminatesOneShort == THREAD_POOL_SIZE - 1

\* the number of Terminate messages drop sends: one for each of self.workers
TerminatesToSend == THREAD_POOL_SIZE

\* self.sender.send(Terminate).unwrap()
DropSend ==
    /\ dropPc = "send"
    /\ IF ReceiverAlive
       THEN /\ queue' = Append(queue, Terminate)
            /\ dropSent' = dropSent + 1
            /\ dropPc' = IF dropSent + 1 = TerminatesToSend THEN "join" ELSE "send"
       ELSE /\ dropPc' = "panicked"
            /\ UNCHANGED << queue, dropSent >>
    /\ UNCHANGED << overflowChecks, helperVars, serverVars, connVars, workerState,
                    workerConn, sessPc, orderVars, joinIdx >>

\* thread.join().unwrap() of worker joinIdx: waits for the thread to end
DropJoin ==
    /\ dropPc = "join"
    /\ workerState[joinIdx] \in {"exited", "dead"}
    /\ IF workerState[joinIdx] = "dead"
       THEN /\ dropPc' = "panicked"
            /\ joinIdx' = joinIdx
       ELSE /\ dropPc' = IF joinIdx = THREAD_POOL_SIZE THEN "done" ELSE "join"
            /\ joinIdx' = IF joinIdx = THREAD_POOL_SIZE THEN joinIdx ELSE joinIdx + 1
    /\ UNCHANGED << overflowChecks, helperVars, serverVars, connVars, poolVars, dropSent >>

(***************************************************************************)
(* Specifications.                                                         *)
(***************************************************************************)
RunStep ==
    RunStart \/ RunCheck \/ RunAcceptConn \/ RunAcceptWouldBlock \/ RunSleep
StopStep(s) == StopLoad(s) \/ StopStore(s) \/ StopConnect(s)
WorkerStep(w) ==
    WorkerRecvJob(w) \/ WorkerRecvTerminate(w) \/ SessionCheck(w) \/ SessionHandle(w)
DropStep == DropStart \/ DropSend \/ DropJoin

Next ==
    \/ \E c \in Clients : Connect(c)
    \/ RunStep
    \/ RunAcceptError
    \/ \E s \in Stoppers : StopStep(s)
    \/ \E w \in Workers : WorkerStep(w)
    \/ DropStep

Spec == Init /\ [][Next]_vars

(***************************************************************************)
(* The server while it serves, with no stop() and no drop: clients connect *)
(* once each and choose among ServerScripts.                               *)
(***************************************************************************)
SessionStep(w) == WorkerRecvJob(w) \/ SessionCheck(w) \/ SessionHandle(w)

NextServe ==
    \/ \E c \in Clients : Connect(c)
    \/ RunStep
    \/ RunAcceptError
    \/ \E w \in Workers : SessionStep(w)

InitServe ==
    /\ ServerNew
    /\ overflowChecks \in BOOLEAN
    /\ HelperNew
    /\ menu = ServerScripts
    /\ stopPc = [s \in Stoppers |-> "off"]
    /\ connectsLeft = [c \in Conns |-> IF c \in Clients THEN 1 ELSE 0]

ServeSpec == InitServe /\ [][NextServe]_vars

(***************************************************************************)
(* The server with threads that call stop(): one client connects, with a   *)
(* well-formed script.                                                     *)
(***************************************************************************)
StopScripts ==
    { Script(<< WholeFrame(3, EchoMessage("a")) >>, "eof") }

NextStop ==
    \/ Connect(1)
    \/ RunStep
    \/ RunAcceptError
    \/ \E s \in Stoppers : StopStep(s)
    \/ \E w \in Workers : SessionStep(w)

InitStop ==
    /\ ServerNew
    /\ overflowChecks \in BOOLEAN
    /\ HelperNew
    /\ menu = StopScripts
    /\ stopPc = [s \in Stoppers |-> "idle"]
    /\ connectsLeft = [c \in Conns |-> IF c = 1 THEN 1 ELSE 0]

StopSpec == InitStop /\ [][NextStop]_vars

(***************************************************************************)
(* One session: the server runs, connection 1 has been accepted and worker *)
(* 1 has taken its job; its peer sends any script of AllScripts.           *)
(***************************************************************************)
NextSession == \E w \in Workers : SessionCheck(w) \/ SessionHandle(w)

InitSession ==
    /\ overflowChecks \in BOOLEAN
    /\ HelperNew
    /\ is_running = TRUE
    /\ runPc = "check"
    /\ stopPc = [s \in Stoppers |-> "off"]
    /\ backlog = << >>
    /\ queue = << >>
    /\ workerState = [w \in Workers |-> IF w = 1 THEN "job" ELSE "recv"]
    /\ workerConn = [w \in Workers |-> IF w = 1 THEN 1 ELSE 0]
    /\ sessPc = [w \in Workers |-> IF w = 1 THEN "check" ELSE "none"]
    /\ dropPc = "idle"
    /\ dropSent = 0
    /\ joinIdx = 1
    /\ connStatus = [c \in Conns |-> IF c = 1 THEN "active" ELSE "none"]
    /\ menu = {}
    /\ \E sc \in AllScripts : script = [c \in Conns |-> IF c = 1 THEN sc ELSE NoScript]
    /\ connectsLeft = [c \in Conns |-> 0]
    /\ rpos = [c \in Conns |-> 0]
    /\ out = [c \in Conns |-> << >>]
    /\ lastKind = [c \in Conns |-> "none"]
    /\ bodyRead = [c \in Conns |-> 0]
    /\ acceptsSinceStop = 0
    /\ sleepsSinceStop = 0
    /\ outstanding = << >>
    /\ sent = [c \in Conns |-> IF c = 1 THEN 1 ELSE 0]
    /\ received = [c \in Conns |-> IF c = 1 THEN 1 ELSE 0]

SessionSpec == InitSession /\ [][NextSession]_vars

(***************************************************************************)
(* One session and a stop(): as above, and one thread calls stop() at any  *)
(* moment of the session.                                                  *)
(***************************************************************************)
NextSever ==
    \/ \E w \in Workers : SessionCheck(w) \/ SessionHandle(w)
    \/ \E s \in Stoppers : StopStep(s)

InitSever ==
    /\ overflowChecks \in BOOLEAN
    /\ HelperNew
    /\ is_running = TRUE
    /\ runPc = "check"
    /\ stopPc = [s \in Stoppers |-> IF s = 1 THEN "idle" ELSE "off"]
    /\ backlog = << >>
    /\ queue = << >>
    /\ workerState = [w \in Workers |-> IF w = 1 THEN "job" ELSE "recv"]
    /\ workerConn = [w \in Workers |-> IF w = 1 THEN 1 ELSE 0]
    /\ sessPc = [w \in Workers |-> IF w = 1 THEN "check" ELSE "none"]
    /\ dropPc = "idle"
    /\ dropSent = 0
    /\ joinIdx = 1
    /\ connStatus = [c \in Conns |-> IF c = 1 THEN "active" ELSE "none"]
    /\ menu = {}
    /\ \E sc \in AllScripts : script = [c \in Conns |-> IF c = 1 THEN sc ELSE NoScript]
    /\ connectsLeft = [c \in Conns |-> 0]
    /\ rpos = [c \in Conns |-> 0]
    /\ out = [c \in Conns |-> << >>]
    /\ lastKind = [c \in Conns |-> "none"]
    /\ bodyRead = [c \in Conns |-> 0]
    /\ acceptsSinceStop = 0
    /\ sleepsSinceStop = 0
    /\ outstanding = << >>
    /\ sent = [c \in Conns |-> IF c = 1 THEN 1 ELSE 0]
    /\ received = [c \in Conns |-> IF c = 1 THEN 1 ELSE 0]

SeverSpec == InitSever /\ [][NextSever]_vars

(***************************************************************************)
(* A server whose one client connects again and again, once more than the  *)
(* pool has workers.                                                       *)
(***************************************************************************)
InitPanic ==
    /\ ServerNew
    /\ overflowChecks \in BOOLEAN
    /\ HelperNew
    /\ menu = LifeScripts
    /\ stopPc = [s \in Stoppers |-> "off"]
    /\ connectsLeft = [c \in Conns |-> IF c = 1 THEN THREAD_POOL_SIZE + 1 ELSE 0]

PanicSpec == InitPanic /\ [][NextServe]_vars

(***************************************************************************)
(* A server whose accept may fail: clients connect once each, one kind     *)
(* sends a request and closes, the other stays silent.                     *)
(***************************************************************************)
AcceptScripts ==
    { Script(<< WholeFrame(4, AddRequest(10, 20)) >>, "eof"),
      Script(<< >>, "timeout") }

InitAccept ==
    /\ ServerNew
    /\ overflowChecks \in BOOLEAN
    /\ HelperNew
    /\ menu = AcceptScripts
    /\ stopPc = [s \in Stoppers |-> "off"]
    /\ connectsLeft = [c \in Conns |-> IF c \in Clients THEN 1 ELSE 0]

AcceptSpec == InitAccept /\ [][NextServe]_vars

(***************************************************************************)
(* A server with its pool full: every worker runs the session of a         *)
(* connection accepted earlier, whose peer stays silent (the first may     *)
(* instead send a sum that overflows); one more client connects.           *)
(***************************************************************************)
BusyScripts ==
    { Script(<< >>, "timeout"),
      Script(<< WholeFrame(4, AddRequest(INT32_MAX, 1)) >>, "eof") }

RunLoopStep == RunCheck \/ RunAcceptConn \/ RunAcceptWouldBlock \/ RunSleep

NextBusy ==
    \/ Connect(1)
    \/ RunLoopStep
    \/ \E w \in Workers : SessionStep(w)

InitBusy ==
    /\ overflowChecks \in BOOLEAN
    /\ HelperNew
    /\ is_running = TRUE
    /\ runPc = "check"
    /\ stopPc = [s \in Stoppers |-> "off"]
    /\ backlog = << >>
    /\ queue = << >>
    /\ workerState = [w \in Workers |-> "job"]
    /\ workerConn = [w \in Workers |-> Filler(w)]
    /\ sessPc = [w \in Workers |-> "check"]
    /\ dropPc = "idle"
    /\ dropSent = 0
    /\ joinIdx = 1
    /\ connStatus = [c \in Conns |->
                       IF \E w \in Workers : c = Filler(w) THEN "active" ELSE "none"]
    /\ menu = StopScripts
    /\ \E sc \in BusyScripts :
          script = [c \in Conns |->
                      IF c = Filler(1) THEN sc
                      ELSE IF \E w \in Workers : c = Filler(w)
                           THEN Script(<< >>, "timeout") ELSE NoScript]
    /\ connectsLeft = [c \in Conns |-> IF c = 1 THEN 1 ELSE 0]
    /\ rpos = [c \in Conns |-> 0]
    /\ out = [c \in Conns |-> << >>]
    /\ lastKind = [c \in Conns |-> "none"]
    /\ bodyRead = [c \in Conns |-> 0]
    /\ acceptsSinceStop = 0
    /\ sleepsSinceStop = 0
    /\ outstanding = << >>
    /\ sent = [c \in Conns |-> IF \E w \in Workers : c = Filler(w) THEN 1 ELSE 0]
    /\ received = [c \in Conns |-> IF \E w \in Workers : c = Filler(w) THEN 1 ELSE 0]

BusySpec == InitBusy /\ [][NextBusy]_vars

(***************************************************************************)
(* The client helper on its own: any sequence of connect, disconnect, send *)
(* and receive calls on one Client.                                        *)
(***************************************************************************)
NextHelper == HelperConnect \/ HelperDisconnect \/ HelperSend \/ HelperReceive

InitHelper ==
    /\ ServerNew
    /\ overflowChecks = FALSE
    /\ HelperNew
    /\ menu = {}
    /\ stopPc = [s \in Stoppers |-> "off"]
    /\ connectsLeft = [c \in Conns |-> 0]

HelperSpec == InitHelper /\ [][NextHelper]_vars

(***************************************************************************)
(* Scheduling: the threads of the server keep running.  Clients and        *)
(* failures of accept are the environment's and get no fairness.           *)
(***************************************************************************)
FairStopSpec ==
    /\ StopSpec
    /\ WF_vars(RunStep)
    /\ \A s \in Stoppers : WF_vars(StopStep(s))
    /\ \A w \in Workers : WF_vars(SessionStep(w))

FairAcceptSpec ==
    /\ AcceptSpec
    /\ WF_vars(RunStep)
    /\ \A w \in Workers : WF_vars(SessionStep(w))

FairBusySpec ==
    /\ BusySpec
    /\ WF_vars(RunLoopStep)
    /\ \A w \in Workers : WF_vars(SessionStep(w))

FairSpec ==
    /\ Spec
    /\ WF_vars(RunStep)
    /\ \A s \in Stoppers : WF_vars(StopStep(s))
    /\ \A w \in Workers : WF_vars(WorkerStep(w))
    /\ WF_vars(DropStep)

(***************************************************************************)
(* Properties.                                                             *)
(***************************************************************************)
StopDone(s) == stopPc[s] \in {"flipped", "warned"}
TookFlipPath(s) == stopPc[s] \in {"store", "connect", "flipped"}

\* C1: once stop() has stored false while run() is in its loop, the loop
\* makes at most one more accept attempt and ends at most one more sleep; a
\* loop condition that reads false ends the loop with run() returning
\* Ok(()); and from the sleep or the loop condition run() does return.
C1_StopEndsIdlePolling ==
    /\ [](acceptsSinceStop <= 1 /\ sleepsSinceStop <= 1)
    /\ [][(runPc = "check" /\ ~is_running /\ runPc' # runPc) => runPc' = "returned"]_vars
    /\ ((~is_running /\ runPc \in {"sleep", "check"}) ~> (runPc = "returned"))

\* a stop() has flipped the flag, the loop has made its one more accept
\* attempt, slept once more and run() has returned
C1_Witness ==
    /\ \E s \in Stoppers : stopPc[s] = "flipped"
    /\ acceptsSinceStop = 1
    /\ sleepsSinceStop = 1
    /\ runPc = "returned"

\* C2: a stop() that has completed is not lost: from then on the flag is
\* false for as long as run() has not ended, whatever the interleaving with
\* run()'s own store of true.
C2_StopNotLost ==
    \A s \in Stoppers :
        (StopDone(s) /\ runPc \notin {"returned", "panicked"}) => ~is_running

\* C8: a stop() that loads the flag as false takes the warning path and
\* changes nothing else: not the flag, the listener's backlog, the pool, its
\* queue, any connection, run() or another stop().
C8_StopWhenStoppedChangesNothing ==
    [][\A s \in Stoppers :
          (stopPc[s] = "idle" /\ stopPc'[s] # "idle" /\ ~is_running)
          => /\ stopPc'[s] = "warned"
             /\ \A t \in Stoppers \ {s} : stopPc'[t] = stopPc[t]
             /\ UNCHANGED << overflowChecks, is_running, runPc, backlog,
                             acceptsSinceStop, sleepsSinceStop, poolVars,
                             dropVars, connVars >>]_vars

\* stop(); stop(): one call has flipped the flag and connected, a later one
\* has found the flag false
C8_Witness ==
    \E s, t \in Stoppers :
        /\ stopPc[s] = "flipped"
        /\ stopPc[t] = "warned"
        /\ connStatus[SelfConn(s)] # "none"
        /\ connStatus[SelfConn(t)] = "none"
        /\ ~is_running

\* C9: of the stop() calls on a running server at most one flips the flag
\* and connects to the listener.
C9_OneStopFlips ==
    Cardinality({ s \in Stoppers : TookFlipPath(s) }) <= 1

\* the step of worker w that is one call of client.handle()
HandleStepOf(w) ==
    /\ workerState[w] = "job"
    /\ sessPc[w] = "handle"
    /\ sessPc'[w] # "handle"

\* a frame that arrives whole and within the size limit
IsWholeFrame(f) ==
    /\ Len(f.prefix) = 4
    /\ FromBeBytes(f.prefix) <= MAX_MESSAGE_SIZE
    /\ f.avail >= FromBeBytes(f.prefix)

\* r is a + b modulo 2^32, in the range of i32
IsWrappedSum(r, a, b) ==
    /\ r >= INT32_MIN
    /\ r <= INT32_MAX
    /\ Lo(r) = (Lo(a) + Lo(b)) % Half
    /\ (Hi(r) - Hi(a) - Hi(b) - ((Lo(a) + Lo(b)) \div Half)) % Half = 0

\* the response the protocol gives a request
ResponseTo(req) ==
    IF req.tag = "Echo" THEN req ELSE AddResponse(WrappingAdd(req.a, req.b))

\* the responses, in order, to the requests with a variant among frames that
\* all arrived whole and decode
RECURSIVE ExpectedResponses(_)
ExpectedResponses(frames) ==
    IF frames = << >> THEN << >>
    ELSE LET req == Head(frames).payload
         IN  (IF req.tag \in {"Echo", "Add"} THEN << ResponseTo(req) >> ELSE << >>)
             \o ExpectedResponses(Tail(frames))

Taken(c) == SubSeq(script[c].frames, 1, rpos[c])

\* C3: whatever tasks have panicked, execute() does not fail and a queued
\* task has a live worker to take it.
C3_PoolServesAfterPanics ==
    /\ runPc # "panicked"
    /\ \A c \in Conns : connStatus[c] = "queued" => ReceiverAlive

\* C4: a whole Add{a,b} frame on a healthy transport is answered with
\* AddResult{a+b mod 2^32}; the session stays active and its worker alive.
C4_AddWraps ==
    [][\A w \in Workers :
          LET c == workerConn[w] IN
          (/\ HandleStepOf(w)
           /\ Rest(c) # << >>
           /\ IsWholeFrame(Head(Rest(c)))
           /\ Head(Rest(c)).payload.tag = "Add"
           /\ script[c].ending # "reset")
          => /\ Len(out'[c]) = Len(out[c]) + 1
             /\ out'[c][Len(out'[c])].tag = "AddResult"
             /\ IsWrappedSum(out'[c][Len(out'[c])].a,
                             Head(Rest(c)).payload.a, Head(Rest(c)).payload.b)
             /\ connStatus'[c] = "active"
             /\ workerState'[w] = "job"]_vars

\* C5: on a healthy transport, the responses written to a connection are
\* exactly the responses to the requests the session has taken, one each, in
\* the order they arrived.
C5_EachRequestAnsweredInOrder ==
    \A c \in Conns :
        (/\ script[c].ending # "reset"
         /\ \A i \in 1..rpos[c] :
               IsWholeFrame(Taken(c)[i]) /\ Taken(c)[i].payload.tag # "Garbage")
        => out[c] = ExpectedResponses(Taken(c))

\* C7: a prefix that declares more than MAX_MESSAGE_SIZE is rejected with no
\* body byte read and no response, and the connection is closed; a prefix
\* that declares exactly MAX_MESSAGE_SIZE has its body read.
C7_OversizeRejectedBeforeBody ==
    [][\A w \in Workers :
          LET c == workerConn[w] IN
          (HandleStepOf(w) /\ Rest(c) # << >> /\ Len(Head(Rest(c)).prefix) = 4)
          => LET f == Head(Rest(c))
                 declared == FromBeBytes(f.prefix)
             IN  /\ declared > MAX_MESSAGE_SIZE
                    => /\ bodyRead'[c] = 0
                       /\ out'[c] = out[c]
                       /\ lastKind'[c] = "InvalidData"
                       /\ connStatus'[c] = "closed"
                       /\ workerState'[w] = "recv"
                 /\ (declared = MAX_MESSAGE_SIZE /\ f.avail >= declared)
                    => /\ bodyRead'[c] = MAX_MESSAGE_SIZE
                       /\ lastKind'[c] # "InvalidData"]_vars

\* a frame of exactly the maximum has been read and answered, the next one,
\* one byte over, has closed the connection unread
C7_Witness ==
    /\ rpos[1] = 2
    /\ FromBeBytes(script[1].frames[1].prefix) = MAX_MESSAGE_SIZE
    /\ FromBeBytes(script[1].frames[2].prefix) = MAX_MESSAGE_SIZE + 1
    /\ out[1] = << EchoMessage("max") >>
    /\ lastKind[1] = "InvalidData"
    /\ bodyRead[1] = 0
    /\ connStatus[1] = "closed"

\* how a handle() ends on an error of its own connection: undecodable
\* bytes, a read timeout, an oversize prefix, a failed read or write
ConnectionErrors ==
    {"DecodeError", "WouldBlock", "InvalidData", "ConnectionReset", "BrokenPipe"}

\* C6: a handle() that ends on an error of its connection writes no
\* response and closes that connection only; its worker goes back to the
\* queue; the accept loop, the flag, the queue, the listener, the other
\* workers and the other connections are as they were; and what any
\* connection has been answered is the responses to its own requests.
C6_ErrorsStayInTheirConnection ==
    /\ [](\A c \in Conns :
             lastKind[c] \notin {"BrokenPipe", "Overflow"}
             => out[c] = ExpectedResponses(Taken(c)))
    /\ [][\A w \in Workers :
             LET c == workerConn[w] IN
             (HandleStepOf(w) /\ lastKind'[c] \in ConnectionErrors)
             => /\ out'[c] = out[c]
                /\ connStatus'[c] = "closed"
                /\ workerState'[w] = "recv"
                /\ \A v \in Workers \ {w} :
                      /\ workerState'[v] = workerState[v]
                      /\ workerConn'[v] = workerConn[v]
                      /\ sessPc'[v] = sessPc[v]
                /\ \A d \in Conns \ {c} :
                      /\ connStatus'[d] = connStatus[d]
                      /\ out'[d] = out[d]
                      /\ rpos'[d] = rpos[d]
                      /\ lastKind'[d] = lastKind[d]
                /\ UNCHANGED << is_running, runPc, backlog, queue >>]_vars

\* one connection has been closed on undecodable bytes, by a worker that is
\* back at the queue or serving again; another has been answered and is
\* still served; the accept loop runs
C6_Witness ==
    \E c, d \in Clients :
        /\ c # d
        /\ lastKind[c] = "DecodeError"
        /\ connStatus[c] = "closed"
        /\ out[c] = << >>
        /\ lastKind[d] = "Responded"
        /\ connStatus[d] = "active"
        /\ out[d] = << AddResponse(30) >>
        /\ InLoop
        /\ \A w \in Workers : workerState[w] \in {"recv", "job"}

TerminatesQueued == Cardinality({ i \in 1..Len(queue) : queue[i].type = "Terminate" })
Exited == { w \in Workers : workerState[w] = "exited" }
SomeTaskPanicked == \E w \in Workers : workerState[w] = "dead"

\* C10: drop sends one Terminate for each worker and no more; a worker
\* takes at most one Terminate and has then left its loop for good; and,
\* unless a task has panicked, a drop that has started finishes, with every
\* worker exited and joined.
C10_DropTerminates ==
    /\ [](/\ dropSent <= THREAD_POOL_SIZE
          /\ dropPc \in {"join", "done"} => dropSent = THREAD_POOL_SIZE
          /\ Cardinality(Exited) + TerminatesQueued = dropSent
          /\ dropPc = "done" => Exited = Workers)
    /\ [][\A w \in Workers : workerState[w] = "exited" => workerState'[w] = "exited"]_vars
    /\ ((dropPc = "send") ~> (dropPc = "done" \/ SomeTaskPanicked))

\* the pool of a server that has answered a client has been dropped: four
\* Terminate messages sent and taken, every worker joined
C10_Witness ==
    /\ dropPc = "done"
    /\ dropSent = THREAD_POOL_SIZE
    /\ Exited = Workers
    /\ queue = << >>
    /\ \E c \in Clients : out[c] # << >>

\* how many times connection c occurs in the sequence s
Count(s, c) == Cardinality({ i \in 1..Len(s) : s[i] = c })
\* the connections of the jobs that wait in the channel, in order
JobsQueued == [i \in 1..Len(SelectSeq(queue, LAMBDA m : m.type = "NewJob")) |->
                 SelectSeq(queue, LAMBDA m : m.type = "NewJob")[i].conn]
IsPrefix(s, t) == Len(s) <= Len(t) /\ SubSeq(t, 1, Len(s)) = s
\* the workers that run the job of connection c
RunningJobOf(c) == { w \in Workers : workerState[w] = "job" /\ workerConn[w] = c }

\* the connection whose job is received in this step
ReceivedNow(c) == received'[c] # received[c]

\* C11: a job sent with execute() is received by at most one worker and
\* run at most once: for each connection the jobs sent are the jobs
\* received and the jobs that wait in the channel, no job is run by two
\* workers, and each receive hands one job to one worker.  When the drop of
\* the pool is done, every job sent has been received and run to its end:
\* none waits, none is running.
C11_TasksConsumedOnce ==
    /\ [](/\ \A c \in Conns :
                /\ sent[c] = received[c] + Count(JobsQueued, c)
                /\ received[c] <= 1
                /\ Cardinality(RunningJobOf(c)) <= 1
                /\ RunningJobOf(c) # {} => received[c] = 1
          /\ dropPc = "done"
             => /\ received = sent
                /\ JobsQueued = << >>
                /\ \A c \in Conns :
                      /\ RunningJobOf(c) = {}
                      /\ connStatus[c] \notin {"queued", "active"})
    /\ [][\A c \in Conns :
             ReceivedNow(c)
             => /\ received' = [received EXCEPT ![c] = @ + 1]
                /\ Cardinality({ w \in Workers : workerState[w] # workerState'[w] }) = 1
                /\ Cardinality({ w \in Workers :
                                    /\ workerState'[w] = "job"
                                    /\ workerConn'[w] = c }) = 1]_vars

\* the pool has been dropped after two jobs were sent, a client's session
\* and the session of stop()'s own connection: both have been received and
\* have ended
C11_Witness ==
    /\ dropPc = "done"
    /\ \E s \in Stoppers :
          /\ sent[1] = 1 /\ received[1] = 1 /\ connStatus[1] = "closed"
          /\ sent[SelfConn(s)] = 1 /\ received[SelfConn(s)] = 1
          /\ connStatus[SelfConn(s)] = "closed"

\* C12: jobs are received in the order execute() sent them, whichever
\* workers receive them: the job a worker receives is the oldest of the
\* jobs sent and not yet received.
C12_DequeuedInSubmissionOrder ==
    [][\A c \in Conns :
          ReceivedNow(c) => (outstanding # << >> /\ c = outstanding[1])]_vars

\* of two jobs sent, the older has been received and is running while the
\* younger still waits, with workers free to take it
C12_Witness ==
    \E c, d \in Clients :
        /\ c # d
        /\ sent[c] = 1 /\ received[c] = 1
        /\ connStatus[c] = "active"
        /\ outstanding = << d >>
        /\ sent[d] = 1 /\ received[d] = 0
        /\ \E w \in Workers : workerState[w] = "recv"

\* C13: a session that has answered its peer and whose peer has sent a
\* further request ends only by a client.handle() of its own (the peer's
\* close, a read timeout, an error): never because the flag has gone false.
C13_StopDoesNotSever ==
    [][\A w \in Workers :
          LET c == workerConn[w] IN
          (/\ workerState[w] = "job"
           /\ workerState'[w] # "job"
           /\ lastKind[c] = "Responded"
           /\ Rest(c) # << >>)
          => HandleStepOf(w)]_vars

\* the worker threads still in their loop: waiting for a message or running
\* a job
LiveWorkers == { w \in Workers : workerState[w] \in {"recv", "job"} }

\* C14: from the end of ThreadPool::new to the start of the pool's drop the
\* number of live worker threads is the pool's size.
C14_PoolKeepsItsSize ==
    dropPc = "idle" => Cardinality(LiveWorkers) = THREAD_POOL_SIZE

\* C15: a client.handle() that takes a whole Echo{content} frame on a
\* healthy transport writes one response to the same connection, Echo with
\* that very content, and nothing to any other connection.
C15_EchoReturnsContent ==
    [][\A w \in Workers :
          LET c == workerConn[w] IN
          (/\ HandleStepOf(w)
           /\ Rest(c) # << >>
           /\ IsWholeFrame(Head(Rest(c)))
           /\ Head(Rest(c)).payload.tag = "Echo"
           /\ script[c].ending # "reset")
          => /\ out'[c] = Append(out[c], EchoMessage(Head(Rest(c)).payload.content))
             /\ \A d \in Conns \ {c} : out'[d] = out[d]
             /\ connStatus'[c] = "active"]_vars

\* a session has been sent an Echo with empty content and one with 10,000
\* bytes of content, and has answered each with the same content
C15_Witness ==
    /\ rpos[1] = 2
    /\ script[1].frames[1].payload = EchoMessage("")
    /\ script[1].frames[2].payload = EchoMessage("x repeated 10000 times")
    /\ FromBeBytes(script[1].frames[2].prefix) > 10000
    /\ out[1] = << EchoMessage(""), EchoMessage("x repeated 10000 times") >>

\* a frame the stream ends in the middle of: after part of its prefix, or
\* after its prefix and before the end of its body
IsTruncated(f) ==
    \/ Len(f.prefix) < 4
    \/ /\ FromBeBytes(f.prefix) <= MAX_MESSAGE_SIZE
       /\ f.avail < FromBeBytes(f.prefix)

\* C16: when the peer closes, the value of client.handle() tells a close
\* between frames from a close inside a frame: Ok(false) for the first, an
\* Err for the second.
C16_TruncationIsAnError ==
    \A w \in Workers :
        LET c == workerConn[w] IN
        (workerState[w] = "job" /\ sessPc[w] = "handle" /\ script[c].ending = "eof")
        => LET r == handle(Rest(c), script[c].ending, overflowChecks, TRUE)
           IN  /\ Rest(c) = << >> => r.ret = "OkFalse"
               /\ (Rest(c) # << >> /\ IsTruncated(Head(Rest(c)))) => r.ret = "Err"

\* a frame that arrives whole and that handle() gets through without a
\* decode error or a panic
IsServable(f) ==
    /\ IsWholeFrame(f)
    /\ \/ f.payload.tag \in {"None", "Echo"}
       \/ /\ f.payload.tag = "Add"
          /\ ~(overflowChecks /\ AddOverflows(f.payload.a, f.payload.b))

\* C17: a client.handle() that takes a whole frame whose message has no
\* variant writes nothing to any connection, takes that frame only, and
\* leaves the session active at its loop condition; and on a healthy
\* transport the frames around such a frame are answered as if it were not
\* there.
C17_NoVariantIsNoOp ==
    /\ [][\A w \in Workers :
             LET c == workerConn[w] IN
             (/\ HandleStepOf(w)
              /\ Rest(c) # << >>
              /\ IsWholeFrame(Head(Rest(c)))
              /\ Head(Rest(c)).payload.tag = "None")
             => /\ out' = out
                /\ rpos'[c] = rpos[c] + 1
                /\ lastKind'[c] = "NoVariant"
                /\ connStatus'[c] = "active"
                /\ workerState'[w] = "job"
                /\ sessPc'[w] = "check"]_vars
    /\ [](\A c \in Conns :
             (/\ script[c].ending # "reset"
              /\ \E i \in 1..rpos[c] : Taken(c)[i].payload.tag = "None"
              /\ \A i \in 1..rpos[c] : IsServable(Taken(c)[i]))
             => out[c] = ExpectedResponses(Taken(c)))

\* a session has taken a frame with no variant and then an Echo request: it
\* has answered the Echo only and is still active
C17_Witness ==
    /\ rpos[1] = 2
    /\ script[1].frames[1] = WholeFrame(0, NoVariant)
    /\ script[1].frames[2] = WholeFrame(3, EchoMessage("a"))
    /\ out[1] = << EchoMessage("a") >>
    /\ connStatus[1] = "active"
    /\ workerState[1] = "job"

\* C18: an accept that fails with another error than WouldBlock ends run()
\* and changes nothing else: not the flag, the listener's backlog, the
\* pool, its queue or any connection.  After run() has returned nothing more
\* is accepted or sent to the pool; and the sessions that were queued or
\* running then are still served: each is taken and ends only by a
\* client.handle() of its own.
C18_AcceptErrorEndsRunOnly ==
    /\ [][(runPc = "accept" /\ runPc' = "returned")
          => UNCHANGED << is_running, stopPc, backlog, poolVars, dropVars, connVars >>]_vars
    /\ [][runPc = "returned"
          => /\ runPc' = "returned"
             /\ sent' = sent
             /\ IsPrefix(backlog, backlog')]_vars
    /\ [](\A c \in Clients : connStatus[c] = "closed" => lastKind[c] # "none")
    /\ (runPc = "returned")
          ~> (\A c \in Clients : connStatus[c] \notin {"queued", "active"})

\* accept has failed with the flag still true: run() has returned, one
\* connection is left unaccepted in the backlog, another is being served
\* and has been answered
C18_Witness ==
    /\ runPc = "returned"
    /\ is_running
    /\ \E c, d \in Clients :
          /\ connStatus[c] = "pending"
          /\ backlog = << c >>
          /\ connStatus[d] = "active"
          /\ out[d] = << AddResponse(30) >>

ActiveSessions == { c \in Conns : connStatus[c] = "active" }
AllWorkersDead == \A w \in Workers : workerState[w] = "dead"

\* C19: at most THREAD_POOL_SIZE sessions are active at a time.  A
\* connection that waits in the queue has had nothing read from it and
\* nothing written to it, and it becomes active only by a worker that was
\* free taking it.  Unless every worker has died of a panic, a connection
\* that waits is taken in the end.
C19_PoolBoundsSessions ==
    /\ [](/\ Cardinality(ActiveSessions) <= THREAD_POOL_SIZE
          /\ \A c \in Conns :
                connStatus[c] = "queued"
                => /\ rpos[c] = 0
                   /\ bodyRead[c] = 0
                   /\ out[c] = << >>
                   /\ lastKind[c] = "none")
    /\ [][\A c \in Conns :
             (connStatus[c] = "queued" /\ connStatus'[c] # "queued")
             => /\ connStatus'[c] = "active"
                /\ \E w \in Workers :
                      /\ workerState[w] = "recv"
                      /\ workerState'[w] = "job"
                      /\ workerConn'[w] = c]_vars
    /\ \A c \in Clients :
          (connStatus[c] = "queued") ~> (connStatus[c] = "active" \/ AllWorkersDead)

\* every worker runs a session and a further connection, accepted, waits in
\* the queue
C19_Witness ==
    /\ Cardinality(ActiveSessions) = THREAD_POOL_SIZE
    /\ \A w \in Workers : workerState[w] = "job"
    /\ \E c \in Clients :
          /\ connStatus[c] = "queued"
          /\ queue # << >>
          /\ Head(queue) = NewJob(c)

\* C20: a session whose first read of the flag gives false calls no
\* client.handle(): nothing is read from its connection and nothing written
\* to it, the connection is closed at once and the worker is back at the
\* queue; a connection closed so has no response.
C20_LateSessionDoesNothing ==
    /\ [][\A w \in Workers :
             LET c == workerConn[w] IN
             (/\ workerState[w] = "job"
              /\ sessPc[w] = "check"
              /\ sessPc'[w] # "check"
              /\ lastKind[c] = "none"
              /\ ~is_running)
             => /\ connStatus'[c] = "closed"
                /\ rpos'[c] = 0
                /\ bodyRead'[c] = 0
                /\ out'[c] = << >>
                /\ lastKind'[c] = "none"
                /\ workerState'[w] = "recv"
                /\ workerConn'[w] = 0
                /\ UNCHANGED << queue, backlog, is_running >>]_vars
    /\ [](\A c \in Conns :
             (connStatus[c] = "closed" /\ lastKind[c] = "none")
             => (rpos[c] = 0 /\ out[c] = << >>))

\* a client's connection, with a request sent, and the connection stop()
\* made to the listener have both been taken from the queue after the flag
\* went false: both are closed unread and unanswered, the workers are back
\* at the queue
C20_Witness ==
    /\ ~is_running
    /\ \E s \in Stoppers :
          /\ received[SelfConn(s)] = 1
          /\ connStatus[SelfConn(s)] = "closed"
          /\ lastKind[SelfConn(s)] = "none"
    /\ received[1] = 1
    /\ script[1].frames # << >>
    /\ connStatus[1] = "closed"
    /\ lastKind[1] = "none"
    /\ rpos[1] = 0
    /\ out[1] = << >>
    /\ \A w \in Workers : workerState[w] = "recv"

\* C21: a send() or receive() on a helper with no stream fails with
\* NotConnected and changes nothing of the helper; a disconnect() on a
\* helper with no stream returns Ok and leaves it without one; after any
\* disconnect(), also one that follows a successful connect() and whatever
\* shutdown returns, the helper has no stream.
C21_HelperWithoutConnection ==
    /\ [](/\ (helperOp.op \in {"send", "receive"} /\ helperOp.pre = "None")
             => (helperOp.kind = "NotConnected" /\ helperStream = "None")
          /\ helperOp.op = "disconnect" => helperStream = "None"
          /\ (helperOp.op = "disconnect" /\ helperOp.pre = "None")
             => helperOp.kind = "Ok"
          /\ (helperOp.op = "connect" /\ helperOp.kind = "Ok") => helperStream = "Some")
    /\ [][(helperStream = "None" /\ helperOp'.op \in {"send", "receive", "disconnect"})
          => UNCHANGED << helperStream, helperSent >>]_vars

\* a helper that had connected and sent a request has disconnected, and a
\* send() after that has failed with NotConnected
C21_Witness ==
    /\ helperOp = HelperCall("send", "None", "NotConnected", Garbage)
    /\ helperStream = "None"
    /\ helperSent = << WholeFrame(3, EchoMessage("a")) >>

====
